---- MODULE Spec2Model ----
(***************************************************************************)
(* A model of streamlit_app.py: the App Store review collector.            *)
(*                                                                         *)
(* Text is modelled as a sequence of characters (one-character strings;    *)
(* a region code such as "us" is carried as a single character).  The two  *)
(* characters the CSV dialect treats specially, the quote and the          *)
(* backslash, are part of the alphabet.  A row keeps three of the nine     *)
(* columns of COLUMNS_ORDER: review_id (the key), text (which stands for   *)
(* all the free-text columns, carried through the program in the same way) *)
(* and country.  The record fetch_reviews_rss builds carries rating and    *)
(* date as well; the store keeps the three columns.  Texts that pandas     *)
(* would read back as numbers or booleans are not in the alphabet, every   *)
(* JSON document is an object whose entries, where it has a list of them,  *)
(* are objects, and every label is a string of ASCII characters.  A date   *)
(* that pandas can parse is carried as one character: "d" is such a date   *)
(* written with a local offset and "D" is its UTC isoformat.               *)
(***************************************************************************)
EXTENDS Integers, Sequences, FiniteSets, TLC

\* ------------------------------------------------------------------ bounds
MaxRuns == 2     \* update_reviews invocations in one behaviour
MaxCap == 1      \* the largest per-country cap tried (None is tried as well)

\* ------------------------------------------------------- program constants
MaxAttempts == 5   \* stop_after_attempt(5)
MaxPages == 10     \* max_pages=10

\* ------------------------------------------------------------- characters
DQ == "\""      \* the quote character of the CSV dialect
BS == "\\"      \* the escapechar given to to_csv
Digits == {"0", "1", "2", "3", "4", "5", "6", "7", "8", "9"}

Columns == {"review_id", "text", "country"}

\* --------------------------------------------------------- extract_app_id
\* re.search(r"id(\d+)", app_url): the leftmost "id" followed by a digit,
\* the group being the longest run of digits after it. NoId is "no match".
NoId == <<>>

MatchAt(url, i) ==
    /\ i + 2 <= Len(url)
    /\ url[i] = "i"
    /\ url[i + 1] = "d"
    /\ url[i + 2] \in Digits

RECURSIVE DigitRun(_, _)
DigitRun(url, j) ==
    IF j <= Len(url) /\ url[j] \in Digits
    THEN <<url[j]>> \o DigitRun(url, j + 1)
    ELSE <<>>

\* Faulty variant: no match gives a default id instead of an error.
ExtractAppIdNoRaise(app_url) ==
    LET hits == {i \in 1..Len(app_url) : MatchAt(app_url, i)}
    IN  IF hits = {} THEN <<"0">>
        ELSE LET i == CHOOSE k \in hits : \A m \in hits : k <= m
             IN  DigitRun(app_url, i + 2)

ExtractAppId(app_url) ==
    LET hits == {i \in 1..Len(app_url) : MatchAt(app_url, i)}
    IN  IF hits = {} THEN NoId
        ELSE LET i == CHOOSE k \in hits : \A m \in hits : k <= m
             IN  DigitRun(app_url, i + 2)

\* ------------------------------------------------------------ CSV dialect
\* to_csv(quoting=QUOTE_ALL, escapechar="\\"), doublequote left at its
\* default: every field is quoted and a quote inside a field is doubled.
\* The csv writer of Python 3.10 and later also writes the escapechar
\* inside a field escaped by itself; an older one writes it as it is.
RECURSIVE EscapeField(_, _)
EscapeField(s, escapes) ==
    IF s = <<>> THEN <<>>
    ELSE LET c == Head(s)
         IN  (IF c = DQ THEN <<DQ, DQ>>
              ELSE IF c = BS /\ escapes THEN <<BS, BS>>
              ELSE <<c>>) \o EscapeField(Tail(s), escapes)

WriteField(s, escapes) == <<DQ>> \o EscapeField(s, escapes) \o <<DQ>>

\* read_csv(csv_path, dtype={"review_id": str}, keep_default_na=False): the
\* default dialect, quotechar '"', doublequote on and no escapechar, so a
\* backslash is an ordinary character.
RECURSIVE UnDouble(_)
UnDouble(s) ==
    IF s = <<>> THEN <<>>
    ELSE IF Len(s) >= 2 /\ s[1] = DQ /\ s[2] = DQ
         THEN <<DQ>> \o UnDouble(SubSeq(s, 3, Len(s)))
         ELSE <<Head(s)>> \o UnDouble(Tail(s))

ReadField(f) == UnDouble(SubSeq(f, 2, Len(f) - 1))

\* A file a standard CSV writer (no escapechar) leaves: quotes doubled only.
RECURSIVE DoubleQuotes(_)
DoubleQuotes(s) ==
    IF s = <<>> THEN <<>>
    ELSE (IF Head(s) = DQ THEN <<DQ, DQ>> ELSE <<Head(s)>>)
         \o DoubleQuotes(Tail(s))

PlainField(s) == <<DQ>> \o DoubleQuotes(s) \o <<DQ>>

\* --------------------------------------------------------- the CSV store
NoFile == [exists |-> FALSE, header |-> {}, rows |-> <<>>]

\* combined.to_csv(csv_path, ...): the whole corpus, all columns, replaces
\* the file.
ToCsv(df, escapes) ==
    [exists |-> TRUE,
     header |-> Columns,
     rows |-> [i \in 1..Len(df) |->
                  [c \in Columns |-> WriteField(df[i][c], escapes)]]]

\* pd.read_csv, then a column the file lacks is filled with "" and the
\* columns are put in COLUMNS_ORDER.
ReadCsv(file) ==
    [i \in 1..Len(file.rows) |->
        [c \in Columns |->
            IF c \in file.header THEN ReadField(file.rows[i][c]) ELSE <<>>]]

\* set(existing_df["review_id"].astype(str))
IdsOf(df) == {df[i].review_id : i \in 1..Len(df)}

\* drop_duplicates(subset=["review_id"], keep="first")
RECURSIVE DropDuplicatesFrom(_, _)
DropDuplicatesFrom(df, seen) ==
    IF df = <<>> THEN <<>>
    ELSE IF Head(df).review_id \in seen
         THEN DropDuplicatesFrom(Tail(df), seen)
         ELSE <<Head(df)>>
              \o DropDuplicatesFrom(Tail(df), seen \cup {Head(df).review_id})

\* Faulty variant: the drop_duplicates call left out.
DropDuplicatesNone(df) == df

\* Faulty variant: drop_duplicates(keep="last").
RECURSIVE KeepLastFrom(_)
KeepLastFrom(df) ==
    IF df = <<>> THEN <<>>
    ELSE IF \E i \in 2..Len(df) : df[i].review_id = Head(df).review_id
         THEN KeepLastFrom(Tail(df))
         ELSE <<Head(df)>> \o KeepLastFrom(Tail(df))

DropDuplicatesKeepLast(df) == KeepLastFrom(df)

DropDuplicates(df) == DropDuplicatesFrom(df, {})

\* --------------------------------------------------------- stable_hash_id
\* sha256(f"{country}|...|{text}").hexdigest(): a string of hex digits that
\* identical inputs give identically. The digest is idealised as
\* collision-free: the hex form of the hashed bytes themselves.
HexOf(c) ==
    CASE c = "a" -> "61" [] c = "b" -> "62" [] c = "c" -> "63"
      [] c = "x" -> "78" [] c = "y" -> "79" [] c = "|" -> "7c"
      [] c = " " -> "20" [] c = DQ -> "22" [] c = BS -> "5c"
      [] c = "us" -> "7573" [] c = "ru" -> "7275"
      [] c = "0" -> "30" [] c = "1" -> "31" [] c = "5" -> "35"
      [] c = "7" -> "37" [] c = "h" -> "68"
      [] c = "D" -> "323032342d30312d30325431303a30343a30352b30303a3030"
      [] OTHER -> "3f"

\* The author and the title are free text like text and are left out of the
\* hashed string here: f"{country}|{date}|{rating}|{text}".
StableHashId(country, date, rating, text) ==
    LET raw == <<country, "|">> \o date \o <<"|">> \o rating \o <<"|">> \o text
    IN  [i \in 1..Len(raw) |-> HexOf(raw[i])]

\* iso8601: pd.to_datetime(dt_value, utc=True, errors="coerce"), then the
\* isoformat of the timestamp, or str(dt_value) where it is NaT.
Iso8601(dt_value) ==
    IF dt_value \in {<<"d">>, <<"D">>} THEN <<"D">> ELSE dt_value

\* str.isdigit(): not empty and digits only
IsDigit(s) == s # <<>> /\ \A i \in 1..Len(s) : s[i] \in Digits

DigitValue(c) ==
    CASE c = "0" -> 0 [] c = "1" -> 1 [] c = "2" -> 2 [] c = "3" -> 3
      [] c = "4" -> 4 [] c = "5" -> 5 [] c = "6" -> 6 [] c = "7" -> 7
      [] c = "8" -> 8 [] c = "9" -> 9

\* int(rating) of an all-digit string
RECURSIVE IntOf(_)
IntOf(s) ==
    IF s = <<>> THEN 0
    ELSE 10 * IntOf(SubSeq(s, 1, Len(s) - 1)) + DigitValue(s[Len(s)])

\* str.strip() on the id label
RECURSIVE LStrip(_)
LStrip(s) == IF s # <<>> /\ Head(s) = " " THEN LStrip(Tail(s)) ELSE s

RECURSIVE RStrip(_)
RStrip(s) ==
    IF s # <<>> /\ s[Len(s)] = " " THEN RStrip(SubSeq(s, 1, Len(s) - 1)) ELSE s

Strip(s) == RStrip(LStrip(s))

\* ------------------------------------------------------ fetch_reviews_rss
\* Faulty variant: the id label taken as it is, not stripped.
MakeRecordNoStrip(country, entry) ==
    LET date_str == Iso8601(entry.updated)
    IN  [review_id |-> IF entry.id = <<>>
                       THEN StableHashId(country, date_str, entry.rating,
                                         entry.text)
                       ELSE entry.id,
         date |-> date_str,
         rating |-> IF IsDigit(entry.rating)
                    THEN <<IntOf(entry.rating)>>
                    ELSE <<>>,
         text |-> entry.text,
         country |-> <<country>>]

\* One raw entry of feed.entry becomes one review record. The rating of a
\* record is <<n>> for the integer n and <<>> for "".
MakeRecord(country, entry) ==
    LET label == Strip(entry.id)
        date_str == Iso8601(entry.updated)
    IN  [review_id |-> IF label = <<>>
                       THEN StableHashId(country, date_str, entry.rating,
                                         entry.text)
                       ELSE label,
         date |-> date_str,
         rating |-> IF IsDigit(entry.rating)
                    THEN <<IntOf(entry.rating)>>
                    ELSE <<>>,
         text |-> entry.text,
         country |-> <<country>>]

\* Faulty variant: len(entries) < 1, a header-only page goes on.
ExhaustedIfEmpty(body) ==
    \/ body.kind \in {"missing", "null", "notlist"}
    \/ Len(body.entries) < 1

\* if not entries or not isinstance(entries, list) or len(entries) <= 1
Exhausted(body) ==
    \/ body.kind \in {"missing", "null", "notlist"}
    \/ Len(body.entries) <= 1

\* Faulty variant: the cap tested one entry late.
OverCapOffByOne(processed, max_per_country) ==
    max_per_country # <<>> /\ processed > max_per_country[1] + 1

\* Faulty variant: the cap tested one entry early.
OverCapEarly(processed, max_per_country) ==
    max_per_country # <<>> /\ processed >= max_per_country[1]

\* The cap: max_per_country is <<>> (None) or <<n>>.
OverCap(processed, max_per_country) ==
    max_per_country # <<>> /\ processed > max_per_country[1]

\* for entry in entries[1:]: processed += 1; return at the cap; append.
\* es is what is left of entries[1:]; hit says the function returned.
RECURSIVE ProcessEntries(_, _, _, _, _)
ProcessEntries(es, revs, done_n, max_per_country, country) ==
    IF es = <<>>
    THEN [reviews |-> revs, processed |-> done_n, hit |-> FALSE]
    ELSE IF OverCap(done_n + 1, max_per_country)
         THEN [reviews |-> revs, processed |-> done_n + 1, hit |-> TRUE]
         ELSE ProcessEntries(Tail(es),
                             Append(revs, MakeRecord(country, Head(es))),
                             done_n + 1, max_per_country, country)

\* ----------------------------------------------------- update_reviews merge
\* Faulty variant: a later copy of an id added in this run replaces the
\* earlier one.
RECURSIVE MergeReviewsKeepLast(_, _, _, _)
MergeReviewsKeepLast(revs, ex_ids, rows, ids) ==
    IF revs = <<>> THEN [new_rows |-> rows, new_ids |-> ids]
    ELSE LET r == Head(revs)
         IN  IF r.review_id \in ex_ids
             THEN MergeReviewsKeepLast(Tail(revs), ex_ids, rows, ids)
             ELSE IF r.review_id \in ids
                  THEN MergeReviewsKeepLast(
                           Tail(revs), ex_ids,
                           [i \in 1..Len(rows) |->
                               IF rows[i].review_id = r.review_id
                               THEN r ELSE rows[i]],
                           ids)
                  ELSE MergeReviewsKeepLast(Tail(revs), ex_ids,
                                            Append(rows, r),
                                            ids \cup {r.review_id})

\* for r in reviews: skip a known id, else append and remember the id.
RECURSIVE MergeReviews(_, _, _, _)
MergeReviews(revs, ex_ids, rows, ids) ==
    IF revs = <<>> THEN [new_rows |-> rows, new_ids |-> ids]
    ELSE LET r == Head(revs)
         IN  IF r.review_id \in ex_ids \/ r.review_id \in ids
             THEN MergeReviews(Tail(revs), ex_ids, rows, ids)
             ELSE MergeReviews(Tail(revs), ex_ids, Append(rows, r),
                               ids \cup {r.review_id})

\* pd.concat([existing_df, new]) or existing_df.copy(), then drop_duplicates
Combine(ex_df, rows) ==
    DropDuplicates(IF rows # <<>> THEN ex_df \o rows ELSE ex_df)

\* ------------------------------------------------------------ the inputs
Regions == {"us", "ru"}

\* Target URLs: one without id<digits> (an "id" that no digit follows), and
\* one naming app 7 after such an "id".
Urls == {<<"i", "d", "/">>,
         <<"i", "d", "/", "i", "d", "7", "/">>}

AppIds == {ExtractAppId(u) : u \in Urls} \ {NoId}

\* country_list: no region, one, or two different ones in either order
CountryLists ==
    {<<>>} \cup {<<r>> : r \in Regions}
           \cup {cl \in Regions \X Regions : cl[1] # cl[2]}

\* max_per_country: None or 1..MaxCap
Caps == {<<>>} \cup {<<n>> : n \in 1..MaxCap}

\* --------------------------------------------------------- upstream feed
\* A response body: not JSON at all ("badjson"), or a document whose
\* feed.entry is absent ("missing"), null, not a list ("notlist", the feed's
\* single object) or a list of raw entries, the first being the header.
\* A raw entry: id.label, content.label, im:rating.label, updated.label,
\* each "" where the feed leaves it out.
Entry(id, text, rating, updated) ==
    [id |-> id, text |-> text, rating |-> rating, updated |-> updated]
E(id, text) == Entry(id, text, <<"5">>, <<"D">>)
Hdr == Entry(<<>>, <<>>, <<>>, <<>>)
\* a first element that carries the fields of a review
HdrLike == Entry(<<"h">>, <<"h">>, <<"5">>, <<"D">>)
List(es) == [kind |-> "list", entries |-> es]
Doc(kind) == [kind |-> kind, entries |-> <<>>]

\* The feed of one region: its pages; past the last one an endless feed
\* repeats its last page and any other feed serves a header-only page.
FeedTwoPages ==
    [pages |-> <<List(<<Hdr, E(<<"a">>, <<"x">>)>>),
                 List(<<HdrLike, Entry(<<"b">>, <<"x", BS>>, <<"7">>, <<"d">>)>>),
                 Doc("missing")>>,
     endless |-> FALSE]
FeedTwoEntries ==
    [pages |-> <<List(<<HdrLike, Entry(<<"a">>, <<"y">>, <<"0">>, <<"x">>),
                       Entry(<<"a", BS>>, <<"x">>, <<>>, <<>>)>>),
                 Doc("notlist")>>,
     endless |-> FALSE]
FeedBadJson ==
    [pages |-> <<List(<<Hdr, E(<<>>, <<"x">>)>>), Doc("badjson")>>,
     endless |-> FALSE]
FeedEndless ==
    [pages |-> <<List(<<HdrLike, E(<<" ", "b", " ">>, <<"y">>),
                       Entry(<<" ">>, <<DQ>>, <<"1", "0">>, <<"d">>)>>)>>,
     endless |-> TRUE]
FeedOnePage ==
    [pages |-> <<List(<<Hdr, Entry(<<"c">>, <<"x">>, <<"5", "x">>, <<"D">>)>>)>>,
     endless |-> FALSE]
FeedEmptyList == [pages |-> <<List(<<>>)>>, endless |-> FALSE]
FeedNull == [pages |-> <<Doc("null")>>, endless |-> FALSE]

RegionFeeds == {FeedTwoPages, FeedTwoEntries, FeedBadJson, FeedEndless,
                FeedOnePage, FeedEmptyList, FeedNull}

\* The feeds of the two regions: any feed for "us", and for "ru" the one
\* that shares an id with two of them.
Feeds == {f \in [Regions -> RegionFeeds] : f["ru"] = FeedTwoEntries}

PageBody(f, p) ==
    IF p <= Len(f.pages) THEN f.pages[p]
    ELSE IF f.endless THEN f.pages[Len(f.pages)]
    ELSE List(<<Hdr>>)

\* ------------------------------------------------------ the store at start
Row(id, text, country) ==
    [review_id |-> id, text |-> text, country |-> <<country>>]

PlainFile(header, df) ==
    [exists |-> TRUE,
     header |-> header,
     rows |-> [i \in 1..Len(df) |-> [c \in Columns |-> PlainField(df[i][c])]]]

\* No file yet; a file with a duplicated id and a backslash in a text; a
\* file without its review_id column.
InitFiles ==
    {NoFile,
     PlainFile(Columns, <<Row(<<"b">>, <<"x", BS>>, "us"),
                          Row(<<"a">>, <<"x">>, "ru"),
                          Row(<<"b">>, <<"y">>, "ru")>>),
     PlainFile({"text", "country"}, <<Row(<<>>, <<"x">>, "us"),
                                      Row(<<>>, <<"y">>, "us")>>)}

\* ----------------------------------------------------------------- state
VARIABLES
    store,             \* csv_path (the app id) -> the file on disk
    feed,              \* region -> the upstream feed of the target
    jsonErrIsRequestException,
                       \* the installed requests: whether resp.json() raises
                       \* a subclass of RequestException (2.27 and later)
    csvEscapesEscapechar,
                       \* the interpreter: whether csv.writer escapes the
                       \* escapechar (Python 3.10 and later)
    pc,                \* "idle", "fetch" (in http_get_json) or "write"
    app_url, country_list, max_per_country,      \* the arguments
    app_id, existing_df, existing_ids, new_rows, new_ids,
    ci,                \* index of country in country_list
    page, reviews, processed,                    \* fetch_reviews_rss locals
    attempt,           \* GETs made by the latest http_get_json call
    lastOutcome,       \* of the latest GET: "none", "ok" or the exception
    result,            \* how the latest run ended: "none", "running", "ok",
                       \* "ValueError" or the exception of the last GET
    combined,          \* the corpus update_reviews returned
    runs,              \* invocations so far
    storeBefore,       \* the store when the latest run began
    touched,           \* what the latest run did: "read", "net", "write"
    finished,          \* per finished country: what fetch_reviews_rss returned
    repeat,            \* the run repeats the arguments of the successful run
                       \* right before it
    written,           \* the csv_paths a run has written
    other              \* a second invocation of update_reviews (another
                       \* session's script run): its arguments, locals and
                       \* position while the first one executes

args == <<app_url, country_list, max_per_country>>
locals == <<app_id, existing_df, existing_ids, new_rows, new_ids>>
fetchLocals == <<page, reviews, processed>>
build == <<jsonErrIsRequestException, csvEscapesEscapechar>>
vars == <<store, feed, build, pc, args, locals, ci, fetchLocals, attempt,
          lastOutcome, result, combined, runs, storeBefore, touched,
          finished, repeat, written, other>>

\* What belongs to one invocation: everything but the store, the feed, the
\* build and the counts kept over all invocations.
Context ==
    [pc |-> pc, app_url |-> app_url, country_list |-> country_list,
     max_per_country |-> max_per_country, app_id |-> app_id,
     existing_df |-> existing_df, existing_ids |-> existing_ids,
     new_rows |-> new_rows, new_ids |-> new_ids, ci |-> ci, page |-> page,
     reviews |-> reviews, processed |-> processed, attempt |-> attempt,
     lastOutcome |-> lastOutcome, result |-> result, combined |-> combined,
     storeBefore |-> storeBefore, touched |-> touched, finished |-> finished,
     repeat |-> repeat]

\* Only a body that is not JSON shows which requests is installed: with
\* feeds that have none the newer one is taken.
Init ==
    /\ store \in [AppIds -> InitFiles]
    /\ feed \in Feeds
    /\ jsonErrIsRequestException
          \in IF \E r \in Regions : \E p \in 1..Len(feed[r].pages) :
                    feed[r].pages[p].kind = "badjson"
              THEN BOOLEAN ELSE {TRUE}
    /\ csvEscapesEscapechar \in BOOLEAN
    /\ pc = "idle"
    /\ app_url = <<>> /\ country_list = <<>> /\ max_per_country = <<>>
    /\ app_id = NoId /\ existing_df = <<>> /\ existing_ids = {}
    /\ new_rows = <<>> /\ new_ids = {}
    /\ ci = 0 /\ page = 0 /\ reviews = <<>> /\ processed = 0
    /\ attempt = 0 /\ lastOutcome = "none"
    /\ result = "none" /\ combined = <<>>
    /\ runs = 0 /\ storeBefore = store /\ touched = {}
    /\ finished = <<>> /\ repeat = FALSE /\ written = {}
    /\ other = Context

\* ---------------------------------------------------------- update_reviews
\* The call, up to the first request: extract_app_id, then the read of the
\* store (or the empty frame when there is no file), then the loop over
\* country_list begins.
StartRun(url, cl, cap) ==
    /\ pc = "idle"
    /\ runs < MaxRuns
    /\ runs' = runs + 1
    /\ app_url' = url /\ country_list' = cl /\ max_per_country' = cap
    /\ storeBefore' = store
    /\ repeat' = /\ result = "ok"
                 /\ ExtractAppId(url) = app_id
                 /\ cl = country_list
                 /\ cap = max_per_country
    /\ app_id' = ExtractAppId(url)
    /\ new_rows' = <<>> /\ new_ids' = {}
    /\ reviews' = <<>> /\ processed' = 0
    /\ attempt' = 0 /\ lastOutcome' = "none"
    /\ combined' = <<>> /\ finished' = <<>>
    /\ IF ExtractAppId(url) = NoId
       THEN /\ result' = "ValueError"
            /\ pc' = "idle"
            /\ touched' = {}
            /\ existing_df' = <<>> /\ existing_ids' = {}
            /\ ci' = 0 /\ page' = 0
       ELSE /\ result' = "running"
            /\ touched' = {"read"}
            /\ existing_df' = IF store[ExtractAppId(url)].exists
                              THEN ReadCsv(store[ExtractAppId(url)])
                              ELSE <<>>
            /\ existing_ids' = IdsOf(existing_df')
            /\ IF cl = <<>>
               THEN pc' = "write" /\ ci' = 0 /\ page' = 0
               ELSE pc' = "fetch" /\ ci' = 1 /\ page' = 1
    /\ UNCHANGED <<store, feed, build, written, other>>

Country == country_list[ci]
Body == PageBody(feed[Country], page)

\* GETs the running http_get_json call has already made
Made == IF lastOutcome \in {"none", "ok"} THEN 0 ELSE attempt

\* Faulty variant: what was merged so far is written before the error
\* leaves.
AbortPersisting(err) ==
    /\ pc' = "idle"
    /\ result' = err
    /\ combined' = Combine(existing_df, new_rows)
    /\ store' = [store EXCEPT ![app_id] = ToCsv(combined', csvEscapesEscapechar)]
    /\ written' = written \cup {app_id}
    /\ UNCHANGED <<locals, ci, fetchLocals, finished>>

\* An exception leaves fetch_reviews_rss and update_reviews: nothing after
\* the raise runs, to_csv included.
Abort(err) ==
    /\ pc' = "idle"
    /\ result' = err
    /\ UNCHANGED <<store, written, combined, locals, ci, fetchLocals,
                   finished>>

\* tenacity: retry_if_exception_type, stop_after_attempt(5), reraise=True
RetryOrReraise(err) ==
    IF Made + 1 >= MaxAttempts
    THEN Abort(err)
    ELSE UNCHANGED <<pc, result, store, written, combined, locals, ci,
                     fetchLocals, finished>>

\* session.get raises (connection error, timeout) or raise_for_status raises
\* on a non-2xx status: a RequestException either way.
GetFails(err) ==
    /\ pc = "fetch"
    /\ attempt' = Made + 1
    /\ lastOutcome' = err
    /\ touched' = touched \cup {"net"}
    /\ RetryOrReraise(err)
    /\ UNCHANGED <<feed, build, args, runs, storeBefore, repeat, other>>

\* A 2xx response whose body is not JSON: resp.json() raises
\* requests.exceptions.JSONDecodeError where requests has it (a
\* RequestException, so tenacity retries), else json's own (a ValueError).
GetBadJson ==
    /\ pc = "fetch"
    /\ Body.kind = "badjson"
    /\ attempt' = Made + 1
    /\ lastOutcome' = "JSONDecodeError"
    /\ touched' = touched \cup {"net"}
    /\ IF jsonErrIsRequestException
       THEN RetryOrReraise("JSONDecodeError")
       ELSE Abort("JSONDecodeError")
    /\ UNCHANGED <<feed, build, args, runs, storeBefore, repeat, other>>

\* Faulty variant: the loop over country_list left after its first country.
FinishCountryFirstOnly(revs, n, why) ==
    /\ new_rows' = MergeReviews(revs, existing_ids, new_rows, new_ids).new_rows
    /\ new_ids' = MergeReviews(revs, existing_ids, new_rows, new_ids).new_ids
    /\ finished' = Append(finished, [country |-> Country, reviews |-> revs,
                                     pages |-> page, why |-> why])
    /\ pc' = "write"
    /\ reviews' = revs /\ processed' = n
    /\ UNCHANGED <<ci, page>>

\* fetch_reviews_rss returns revs for Country; update_reviews merges them
\* and goes on to the next country, or leaves the loop.
FinishCountry(revs, n, why) ==
    /\ new_rows' = MergeReviews(revs, existing_ids, new_rows, new_ids).new_rows
    /\ new_ids' = MergeReviews(revs, existing_ids, new_rows, new_ids).new_ids
    /\ finished' = Append(finished, [country |-> Country, reviews |-> revs,
                                     pages |-> page, why |-> why])
    /\ IF ci = Len(country_list)
       THEN /\ pc' = "write"
            /\ reviews' = revs /\ processed' = n
            /\ UNCHANGED <<ci, page>>
       ELSE /\ pc' = "fetch"
            /\ ci' = ci + 1
            /\ page' = 1 /\ reviews' = <<>> /\ processed' = 0

\* Faulty variant: for entry in entries, the first element processed too.
AllEntries(entries) == entries

\* entries[1:]
RealEntries(entries) == Tail(entries)

\* Faulty variant: range(1, max_pages + 2).
LastPageOffByOne(p) == p = MaxPages + 1

\* for page in range(1, max_pages + 1): p is the last page of the range
LastPage(p) == p = MaxPages

\* The GET succeeds with a JSON document: the body of the page loop.
GetPage ==
    /\ pc = "fetch"
    /\ Body.kind # "badjson"
    /\ attempt' = Made + 1
    /\ lastOutcome' = "ok"
    /\ touched' = touched \cup {"net"}
    /\ IF Exhausted(Body)
       THEN FinishCountry(reviews, processed, "exhausted")
       ELSE LET r == ProcessEntries(RealEntries(Body.entries), reviews, processed,
                                    max_per_country, Country)
            IN  IF r.hit
                THEN FinishCountry(r.reviews, r.processed, "cap")
                ELSE IF LastPage(page)
                     THEN FinishCountry(r.reviews, r.processed, "max_pages")
                     ELSE /\ page' = page + 1
                          /\ reviews' = r.reviews
                          /\ processed' = r.processed
                          /\ UNCHANGED <<pc, ci, new_rows, new_ids, finished>>
    /\ UNCHANGED <<store, feed, build, args, app_id, existing_df,
                   existing_ids, result, combined, runs, storeBefore, repeat,
                   written, other>>

\* Faulty variant: the store is read again at the write and the new rows
\* are merged into what it holds then.
WriteRereading ==
    /\ pc = "write"
    /\ combined' = Combine(ReadCsv(store[app_id]), new_rows)
    /\ store' = [store EXCEPT ![app_id] = ToCsv(combined', csvEscapesEscapechar)]
    /\ touched' = touched \cup {"write"}
    /\ result' = "ok"
    /\ pc' = "idle"
    /\ written' = written \cup {app_id}
    /\ UNCHANGED <<feed, build, args, locals, ci, fetchLocals, attempt,
                   lastOutcome, runs, storeBefore, finished, repeat, other>>

\* After the loop: concat, drop_duplicates, to_csv, return combined.
Write ==
    /\ pc = "write"
    /\ combined' = Combine(existing_df, new_rows)
    /\ store' = [store EXCEPT ![app_id] = ToCsv(combined', csvEscapesEscapechar)]
    /\ touched' = touched \cup {"write"}
    /\ result' = "ok"
    /\ pc' = "idle"
    /\ written' = written \cup {app_id}
    /\ UNCHANGED <<feed, build, args, locals, ci, fetchLocals, attempt,
                   lastOutcome, runs, storeBefore, finished, repeat, other>>

Next ==
    \/ \E url \in Urls, cl \in CountryLists, cap \in Caps :
          StartRun(url, cl, cap)
    \/ GetFails("RequestException")
    \/ GetBadJson
    \/ GetPage
    \/ Write

Spec == Init /\ [][Next]_vars

\* ------------------------------------------------- two invocations at once
\* Nothing locks the store and each invocation has its own locals: the
\* scheduler may run the other invocation at any point between two steps.
Switch ==
    /\ other' = Context
    /\ pc' = other.pc
    /\ app_url' = other.app_url /\ country_list' = other.country_list
    /\ max_per_country' = other.max_per_country
    /\ app_id' = other.app_id
    /\ existing_df' = other.existing_df /\ existing_ids' = other.existing_ids
    /\ new_rows' = other.new_rows /\ new_ids' = other.new_ids
    /\ ci' = other.ci /\ page' = other.page
    /\ reviews' = other.reviews /\ processed' = other.processed
    /\ attempt' = other.attempt /\ lastOutcome' = other.lastOutcome
    /\ result' = other.result /\ combined' = other.combined
    /\ storeBefore' = other.storeBefore /\ touched' = other.touched
    /\ finished' = other.finished /\ repeat' = other.repeat
    /\ UNCHANGED <<store, feed, build, runs, written>>

\* Both invocations are for the target of the second URL, each over one
\* region, on feeds that answer every request with JSON.
RaceUrl == <<"i", "d", "/", "i", "d", "7", "/">>
RaceLists == {<<r>> : r \in Regions}
RaceFeeds == {f \in Feeds : f["us"] \in {FeedTwoPages, FeedOnePage}}

InitRace ==
    /\ Init
    /\ feed \in RaceFeeds

NextRace ==
    \/ \E cl \in RaceLists, cap \in Caps : StartRun(RaceUrl, cl, cap)
    \/ GetPage
    \/ Write
    \/ Switch

SpecRace == InitRace /\ [][NextRace]_vars

\* ================================================================ claims
StoredRows(file) == ReadCsv(file)

UniqueIds(df) ==
    \A i, j \in 1..Len(df) : df[i].review_id = df[j].review_id => i = j

UniqueRawIds(file) ==
    \A i, j \in 1..Len(file.rows) :
        file.rows[i]["review_id"] = file.rows[j]["review_id"] => i = j

\* the ids fetch_reviews_rss returned in the latest run, all countries
FetchedIds == UNION {IdsOf(finished[i].reviews) : i \in 1..Len(finished)}

FetchErrors == {"RequestException", "JSONDecodeError"}

\* the first row of df that carries rid
FirstWithId(df, rid) ==
    df[CHOOSE i \in 1..Len(df) :
          /\ df[i].review_id = rid
          /\ \A j \in 1..(i - 1) : df[j].review_id # rid]

CountId(df, rid) == Cardinality({i \in 1..Len(df) : df[i].review_id = rid})

\* C1: a store that a successful run has written holds no two rows with the
\* same review_id, whatever the store held before and whatever was fetched.
C1_StoreIdsUnique ==
    \A a \in written :
        /\ store[a].exists
        /\ UniqueRawIds(store[a])
        /\ UniqueIds(StoredRows(store[a]))

\* C1 witness: a successful run over a store that held a duplicated id,
\* with new rows added.
C1_Witness ==
    /\ result = "ok"
    /\ ~UniqueIds(existing_df)
    /\ new_rows # <<>>
    /\ Len(finished) = 2

\* C2: after a successful run, an id that was both in the store read and in
\* the fetched batch has exactly one row in the merged corpus, and that row
\* is the (first) existing row, fields and all.
C2_ExistingCopyKept ==
    result = "ok" =>
        \A rid \in existing_ids \cap FetchedIds :
            /\ CountId(combined, rid) = 1
            /\ FirstWithId(combined, rid) = FirstWithId(existing_df, rid)

\* C2 witness: a fetched record shares its id with an existing row and
\* differs from it in its text.
C2_Witness ==
    /\ result = "ok"
    /\ \E i \in 1..Len(finished) : \E k \in 1..Len(finished[i].reviews) :
          LET r == finished[i].reviews[k]
          IN  /\ r.review_id \in existing_ids
              /\ r.text # FirstWithId(existing_df, r.review_id).text

\* C3: a run that a fetch error ended wrote nothing: the store is what it
\* was when the run began.
C3_NoWriteOnFetchError ==
    result \in FetchErrors =>
        /\ store = storeBefore
        /\ "write" \notin touched

\* C3 witness: the error came in the second country, after the first had
\* given rows that were new to the store.
C3_Witness ==
    /\ result \in FetchErrors
    /\ ci = 2
    /\ new_rows # <<>>

\* C4: a successful run that repeats the arguments of the successful run
\* right before it, the feed being the same, leaves the store as that run
\* left it.
C4_Idempotent ==
    (result = "ok" /\ repeat) => store = storeBefore

\* C5: with a cap set, fetch_reviews_rss never holds or returns more than
\* max_per_country records for a country.
C5_AtMostCap ==
    max_per_country # <<>> =>
        /\ Len(reviews) <= max_per_country[1]
        /\ \A i \in 1..Len(finished) :
              Len(finished[i].reviews) <= max_per_country[1]

\* C5 witness: the cap was met on a later page than the first, with the
\* count carried over.
C5_Witness ==
    /\ max_per_country # <<>>
    /\ \E i \in 1..Len(finished) :
          /\ finished[i].why = "cap"
          /\ finished[i].pages >= 2
          /\ Len(finished[i].reviews) = max_per_country[1]

\* C6: one http_get_json call makes at most 5 GETs, goes on to another GET
\* only after a transport failure, makes none after a success, and after 5
\* failures raises the last one.
C6_RetryOnlyTransport ==
    /\ attempt <= MaxAttempts
    /\ (pc = "fetch" /\ Made > 0) => lastOutcome = "RequestException"
    /\ (result \in FetchErrors /\ attempt = MaxAttempts) => result = lastOutcome

\* C7: a 2xx response that is not JSON is raised at once: no GET follows it
\* in the same http_get_json call, the run has ended with that error.
C7_BadJsonNotRetried ==
    lastOutcome = "JSONDecodeError" =>
        /\ pc = "idle"
        /\ result = "JSONDecodeError"

\* C8: a page whose entry list is missing, null, not a list, empty or of
\* length 1 ends the country there: nothing is raised, what the earlier
\* pages gave is returned, and the next request, if any, is page 1 of the
\* next country.
NoRealEntries(body) ==
    \/ body.kind = "missing"
    \/ body.kind = "null"
    \/ body.kind = "notlist"
    \/ body.kind = "list" /\ body.entries = <<>>
    \/ body.kind = "list" /\ Len(body.entries) = 1

C8_ExhaustionEndsCountry ==
    [][(pc = "fetch" /\ lastOutcome' = "ok" /\ NoRealEntries(Body)) =>
          /\ result' = result
          /\ Len(finished') = Len(finished) + 1
          /\ finished'[ci].reviews = reviews
          /\ finished'[ci].pages = page
          /\ \/ pc' = "write"
             \/ pc' = "fetch" /\ ci' = ci + 1 /\ page' = 1]_vars

\* C8 witness: one country ended on a header-only page and the other on a
\* page whose feed.entry is not a list, each after a page of reviews.
C8_Witness ==
    /\ Len(finished) = 2
    /\ \A i \in 1..2 :
          /\ finished[i].why = "exhausted"
          /\ finished[i].pages >= 2
          /\ finished[i].reviews # <<>>
    /\ \E i, j \in 1..2 :
          /\ PageBody(feed[finished[i].country], finished[i].pages)
                = List(<<Hdr>>)
          /\ PageBody(feed[finished[j].country], finished[j].pages).kind
                = "notlist"

\* app_url holds id<digits> somewhere
HasIdDigits(url) == \E i \in 1..Len(url) : MatchAt(url, i)

\* C9: a run whose URL holds no id<digits> ends in the invalid-input error
\* with no GET made, the store neither read nor written.
C9_InvalidUrlTouchesNothing ==
    (runs > 0 /\ ~HasIdDigits(app_url)) =>
        /\ result = "ValueError"
        /\ pc = "idle"
        /\ touched = {}
        /\ store = storeBefore

\* C9 witness: the URL holds "id" with no digit after it, in a run that
\* follows one that wrote the store.
C9_Witness ==
    /\ result = "ValueError"
    /\ app_url = <<"i", "d", "/">>
    /\ written # {}

\* C10: after a successful run the ids of the store are the ids it held
\* before together with the ids fetched (so no id is ever lost).
C10_IdsAreUnion ==
    result = "ok" =>
        IdsOf(StoredRows(store[app_id]))
            = IdsOf(StoredRows(storeBefore[app_id])) \cup FetchedIds

\* every record fetch_reviews_rss holds or has returned in the latest run
CollectedRecords ==
    {reviews[k] : k \in 1..Len(reviews)}
        \cup UNION {{finished[i].reviews[k] : k \in 1..Len(finished[i].reviews)} :
                      i \in 1..Len(finished)}

\* C11: the rating of every record the collector produces is empty or an
\* integer from 1 to 5, whatever the raw im:rating label was.
C11_RatingInRange ==
    \A r \in CollectedRecords : r.rating = <<>> \/ r.rating[1] \in 1..5

\* the real entries (all but the first of each page) that the feed f serves
\* from page p on, up to the page that ends the region or max_pages
RECURSIVE FeedEntries(_, _)
FeedEntries(f, p) ==
    LET body == PageBody(f, p)
    IN  IF p > MaxPages \/ body.kind = "badjson" \/ NoRealEntries(body)
        THEN <<>>
        ELSE SubSeq(body.entries, 2, Len(body.entries)) \o FeedEntries(f, p + 1)

\* an id label that is missing, empty or whitespace only
BlankLabel(s) == \A i \in 1..Len(s) : s[i] = " "

\* the record rec was made from the raw entry e of the region: its id is
\* the trimmed label, or for a blank label the hash of the entry's fields
IdFollowsEntry(rec, region, e) ==
    LET derived == StableHashId(region, Iso8601(e.updated), e.rating, e.text)
    IN  IF BlankLabel(e.id)
        THEN rec.review_id = derived
        ELSE /\ rec.review_id = Strip(e.id)
             /\ rec.review_id # derived

\* C12: the review_id of a record is the fallback hash of (region,
\* normalised date, raw rating text, text) of its own entry where the
\* entry's id label is missing, empty or whitespace only, and is the trimmed
\* label, not the hash, where the label is not blank.
C12_FallbackId ==
    /\ \A i \in 1..Len(finished) :
          LET es == FeedEntries(feed[finished[i].country], 1)
          IN  \A k \in 1..Len(finished[i].reviews) :
                  IdFollowsEntry(finished[i].reviews[k], finished[i].country,
                                 es[k])
    /\ reviews # <<>> =>
          LET es == FeedEntries(feed[Country], 1)
          IN  \A k \in 1..Len(reviews) :
                  IdFollowsEntry(reviews[k], Country, es[k])

\* C12 witness: a region returned a record made from a whitespace-only
\* label whose date was normalised and whose rating is not 1..5, and one
\* made from a label with blanks around it.
C12_Witness ==
    \E i \in 1..Len(finished) : \E k, m \in 1..Len(finished[i].reviews) :
        LET es == FeedEntries(feed[finished[i].country], 1)
        IN  /\ es[k].id # <<>> /\ BlankLabel(es[k].id)
            /\ Iso8601(es[k].updated) # es[k].updated
            /\ es[k].rating = <<"1", "0">>
            /\ finished[i].reviews[k].review_id
                  = StableHashId(finished[i].country, <<"D">>, <<"1", "0">>,
                                 es[k].text)
            /\ ~BlankLabel(es[m].id) /\ Strip(es[m].id) # es[m].id
            /\ finished[i].reviews[m].review_id = Strip(es[m].id)

\* what fetch_reviews_rss returned in the latest run, region after region
RECURSIVE FetchedFrom(_)
FetchedFrom(i) ==
    IF i > Len(finished) THEN <<>>
    ELSE finished[i].reviews \o FetchedFrom(i + 1)

Fetched == FetchedFrom(1)

\* C13: after a successful run, an id collected in the run and not in the
\* store read has exactly one row in the merged corpus, and the row is the
\* first collected copy in region-list, page and entry order.
C13_FirstCollectedKept ==
    result = "ok" =>
        /\ \A i \in 1..Len(finished) : finished[i].country = country_list[i]
        /\ \A rid \in FetchedIds \ existing_ids :
              /\ CountId(combined, rid) = 1
              /\ FirstWithId(combined, rid) = FirstWithId(Fetched, rid)

\* C13 witness: an id new to the store was collected under both regions,
\* the two copies differing in text, date and rating.
C13_Witness ==
    /\ result = "ok"
    /\ Len(finished) = 2
    /\ \E k \in 1..Len(finished[1].reviews) :
       \E m \in 1..Len(finished[2].reviews) :
          /\ finished[1].reviews[k].review_id
                = finished[2].reviews[m].review_id
          /\ finished[1].reviews[k].review_id \notin existing_ids
          /\ finished[1].reviews[k].text # finished[2].reviews[m].text
          /\ finished[1].reviews[k].date # finished[2].reviews[m].date
          /\ finished[1].reviews[k].rating # finished[2].reviews[m].rating

\* the smaller of two numbers
Min(a, b) == IF a <= b THEN a ELSE b

\* how many records a region with m real entries is to give under the cap
Expected(m) == IF max_per_country = <<>> THEN m ELSE Min(max_per_country[1], m)

\* C14: what fetch_reviews_rss returns for a region whose pages carry M real
\* entries up to exhaustion or max_pages is, under the cap N, exactly
\* min(N, M) records (all M with no cap): the first of those entries in page
\* and entry order, each with the region as its country.
C14_FirstMinCapRecords ==
    \A i \in 1..Len(finished) :
        LET es == FeedEntries(feed[finished[i].country], 1)
            revs == finished[i].reviews
        IN  /\ Len(revs) = Expected(Len(es))
            /\ \A k \in 1..Len(revs) :
                  /\ revs[k].text = es[k].text
                  /\ revs[k].date = Iso8601(es[k].updated)
                  /\ IdFollowsEntry(revs[k], finished[i].country, es[k])
                  /\ revs[k].country = <<finished[i].country>>

\* C14 witness: under a cap, one region had more real entries than the cap
\* and gave the cap's worth, another had no more than the cap and gave all.
C14_Witness ==
    /\ max_per_country # <<>>
    /\ Len(finished) = 2
    /\ \E i, j \in 1..2 :
          /\ Len(FeedEntries(feed[finished[i].country], 1)) > max_per_country[1]
          /\ Len(finished[i].reviews) = max_per_country[1]
          /\ Len(FeedEntries(feed[finished[j].country], 1)) = max_per_country[1]
          /\ Len(finished[j].reviews) = max_per_country[1]

\* C15: once max_per_country entries of a region have been processed no
\* further page of the region is requested, so no fetch error can end a run
\* in a region whose cap was already met.
C15_StopsAtCap ==
    max_per_country # <<>> =>
        /\ pc = "fetch" => processed < max_per_country[1]
        /\ result \in FetchErrors => processed < max_per_country[1]

\* C16: with two invocations for one target interleaved, every write leaves
\* in the store exactly the corpus its writer computed from the snapshot it
\* read at its start (whatever the store holds by then), with unique ids; so
\* the store ends as the last writer's corpus, and rows the other invocation
\* added can be gone.
C16_LastWriterWins ==
    [][store' # store =>
          /\ combined' = DropDuplicates(StoredRows(storeBefore[app_id])
                                          \o new_rows)
          /\ store' = [store EXCEPT
                          ![app_id] = ToCsv(combined', csvEscapesEscapechar)]
          /\ UniqueRawIds(store'[app_id])]_vars

\* C16 witness: both invocations read the same snapshot and both have
\* written; the store is the corpus of the one that wrote last, and a row the
\* other one added is not in it.
C16_Witness ==
    /\ result = "ok" /\ other.result = "ok"
    /\ other.app_id = app_id
    /\ other.storeBefore = storeBefore
    /\ store[app_id] = ToCsv(combined, csvEscapesEscapechar)
    /\ \E k \in 1..Len(other.new_rows) :
          other.new_rows[k].review_id \notin IdsOf(StoredRows(store[app_id]))

\* GETs the region's fetch can still make at most: the pages left, five
\* attempts each
Measure == (MaxPages - page) * MaxAttempts + (MaxAttempts - Made)

\* real entries of the page being requested
RealOnPage == Len(Body.entries) - 1

\* C17: a region's pages are requested in the order 1, 2, ..., k with
\* k <= max_pages, a page being requested again only as a retry after a
\* failed GET; the fetch of a region ends only by exhaustion, by the cap, at
\* max_pages or by the error of a GET that is re-raised; and it ends, the
\* number of GETs it can still make falling with every GET.
C17_PagesInOrderAndEnds ==
    [][pc = "fetch" =>
          /\ page \in 1..MaxPages
          /\ \/ /\ pc' = "fetch" /\ ci' = ci
                /\ \/ page' = page /\ lastOutcome' \in FetchErrors
                   \/ page' = page + 1 /\ lastOutcome' = "ok"
                /\ Len(finished') = Len(finished)
                /\ Measure' < Measure /\ Measure' >= 0
             \/ /\ Len(finished') = Len(finished) + 1
                /\ lastOutcome' = "ok"
                /\ finished'[ci].pages = page
                /\ \/ NoRealEntries(Body)
                   \/ /\ max_per_country # <<>>
                      /\ processed + RealOnPage > max_per_country[1]
                   \/ page = MaxPages
                /\ pc' = "fetch" => ci' = ci + 1 /\ page' = 1
             \/ /\ pc' = "idle"
                /\ result' \in FetchErrors /\ result' = lastOutcome'
                /\ Len(finished') = Len(finished)]_vars

\* C17 witness: a run in which one region was read up to page max_pages and
\* returned there, and the next region ended on an error re-raised after a
\* page that had succeeded.
C17_Witness ==
    /\ Len(finished) = 1
    /\ finished[1].why = "max_pages" /\ finished[1].pages = MaxPages
    /\ ci = 2 /\ page = 2
    /\ result \in FetchErrors /\ attempt = MaxAttempts

\* the regions that have returned are the first ones of the list, in order
FinishedInListOrder ==
    /\ Len(finished) <= Len(country_list)
    /\ \A i \in 1..Len(finished) : finished[i].country = country_list[i]

\* C18: in a run the regions are fetched one at a time in list order: a GET
\* is for region number ci only when regions 1..ci-1 have all returned and
\* no later one has started, and ci goes up by one at a time; the store is
\* written once, when every region of the list has returned, and the run
\* ends with that write.
C18_RegionsInOrderThenWrite ==
    [][/\ pc = "fetch" =>
            /\ ci \in 1..Len(country_list)
            /\ Len(finished) = ci - 1
            /\ FinishedInListOrder
            /\ "write" \notin touched
            /\ \/ ci' = ci /\ Len(finished') = Len(finished)
               \/ /\ pc' = "fetch" /\ ci' = ci + 1 /\ page' = 1
                  /\ Len(finished') = ci
               \/ /\ pc' = "write" /\ ci' = ci /\ ci = Len(country_list)
                  /\ Len(finished') = ci
       /\ (store' # store \/ touched' \ touched = {"write"}) =>
            /\ pc = "write"
            /\ "write" \notin touched
            /\ Len(finished) = Len(country_list)
            /\ FinishedInListOrder
            /\ pc' = "idle" /\ result' = "ok"
       /\ (result' = "ok" /\ result # "ok") => touched' \ touched = {"write"}
      ]_vars

\* C18 witness: a successful run over two regions, the first read over
\* several pages, that changed the store.
C18_Witness ==
    /\ result = "ok"
    /\ Len(country_list) = 2 /\ Len(finished) = 2
    /\ finished[1].pages >= 2 /\ finished[2].pages >= 2
    /\ finished[1].country = country_list[1]
    /\ finished[2].country = country_list[2]
    /\ store # storeBefore

\* elements from the second onward on pages 1..p of the feed f
RECURSIVE FromSecondOn(_, _)
FromSecondOn(f, p) ==
    IF p = 0 THEN 0
    ELSE FromSecondOn(f, p - 1)
         + (IF PageBody(f, p).kind = "list" /\ Len(PageBody(f, p).entries) >= 1
            THEN Len(PageBody(f, p).entries) - 1 ELSE 0)

\* the first elements of pages 1..p of the feed f
FirstElements(f, p) ==
    {PageBody(f, q).entries[1] :
        q \in {n \in 1..p : PageBody(f, n).kind = "list"
                                /\ Len(PageBody(f, n).entries) >= 1}}

\* C19: the first element of a page's entry list is not counted and gives
\* no record: between pages processed is the number of elements from the
\* second onward on the pages read, what a region returns is no longer than
\* that, and no record carries the id or the text of a first element (the
\* feeds' first elements differ from their other entries in both).
C19_FirstElementSkipped ==
    /\ pc = "fetch" =>
          /\ processed = FromSecondOn(feed[Country], page - 1)
          /\ Len(reviews) = processed
          /\ \A h \in FirstElements(feed[Country], page - 1) :
                \A k \in 1..Len(reviews) :
                    reviews[k].review_id # h.id /\ reviews[k].text # h.text
    /\ \A i \in 1..Len(finished) :
          /\ Len(finished[i].reviews)
                <= FromSecondOn(feed[finished[i].country], finished[i].pages)
          /\ \A h \in FirstElements(feed[finished[i].country],
                                      finished[i].pages) :
                \A k \in 1..Len(finished[i].reviews) :
                    /\ finished[i].reviews[k].review_id # h.id
                    /\ finished[i].reviews[k].text # h.text

\* C19 witness: a region whose pages begin with an element that carries an
\* id label, a text, a rating and a date returned records under a cap that
\* stopped it.
C19_Witness ==
    \E i \in 1..Len(finished) :
        /\ finished[i].why = "cap"
        /\ finished[i].reviews # <<>>
        /\ \A h \in FirstElements(feed[finished[i].country], finished[i].pages) :
              /\ ~BlankLabel(h.id) /\ h.text # <<>>
              /\ IsDigit(h.rating) /\ h.updated # <<>>
====
